---- MODULE Spec2Model ----
(***************************************************************************)
(* A model of incydr/utils.py: the schema walker (flatten_fields,          *)
(* get_fields), the field resolver (get_field_value_and_info), formatted   *)
(* iteration (iter_model_formatted) and the CSV readers and writers; and   *)
(* of the member lookup of incydr/enums (Enum._missing_).                  *)
(*                                                                         *)
(* Python strings are sequences of one-character strings, so that          *)
(* str.split, str.startswith, str.replace and the f-string that joins a    *)
(* path are computed and not assumed.                                      *)
(***************************************************************************)
EXTENDS Naturals, Sequences, FiniteSets, TLC

VARIABLES
    model,      \* get_fields / iter_model_formatted: the pydantic class walked
    include,    \* the include argument: a sequence of entries (strings)
    flat,       \* the flat argument
    gen,        \* the position of the get_fields generator
    out,        \* the field names get_fields has yielded so far
    err,        \* the exception that ended the call, or NoError
    instance,   \* iter_model_formatted: the model instance
    render,     \* iter_model_formatted: the render argument
    config,     \* type(instance).Config.json_encoders: the types with an encoder
    emitted,    \* the (name, value) pairs iter_model_formatted has yielded
    flattening, \* flatten_fields consumed directly: the generator's frames
    source,     \* CSV read: the lines of the source after parsing by csv.reader
    reader,     \* CSV read: the DictReader (fieldnames, position, line_num)
    rd,         \* CSV read: the generator's own locals (pc, error)
    yielded,    \* CSV read: what the generator has yielded so far
    wr,         \* CSV write: the call's arguments and position
    file,       \* CSV write: the destination (open flag and rows written)
    fieldPath,  \* get_field_value_and_info: the path argument
    resolved,   \* get_field_value_and_info: what the call returned or raised
    enumCls,    \* Enum lookup: the Enum subclass (its members, in order)
    lookup,     \* Enum lookup: the value looked up
    looked      \* Enum lookup: the member returned or the exception raised

fieldVars == <<model, include, flat, gen, out, err, instance, render, config,
              emitted, flattening>>
readVars  == <<source, reader, rd, yielded>>
writeVars == <<wr, file>>
resolveVars == <<fieldPath, resolved>>
enumVars  == <<enumCls, lookup, looked>>
vars      == <<fieldVars, readVars, writeVars, resolveVars, enumVars>>

\* ---------------------------------------------------------------- bounds

\* The largest number of fields, counted over the whole tree, of a schema.
MaxNodes == 3
\* The largest number of entries of an include list.
MaxInclude == 2
\* The largest number of records of a CSV source after its first line.
MaxRows == 3
\* The largest number of models handed to a CSV writer.
MaxModels == 3
\* The largest number of times flatten_fields is invoked again on a schema.
MaxRestarts == 2
\* The largest number of components of a path handed to the resolver.
MaxPath == 2
\* The largest number of members of an Enum subclass.
MaxMembers == 2

\* ---------------------------------------------------------------- strings

DOT  == "."
STAR == "*"

\* A mutation: prefix in s, anywhere.
contains(s, prefix) ==
    \E d \in 0..(Len(s) - Len(prefix)) :
        \A k \in 1..Len(prefix) : s[d + k] = prefix[k]

\* str.startswith(prefix)
startswith(s, prefix) ==
    /\ Len(prefix) <= Len(s)
    /\ \A k \in 1..Len(prefix) : s[k] = prefix[k]

\* "*" in s
HasStar(s) == \E k \in 1..Len(s) : s[k] = STAR

\* A mutation: only a "*" at the end is removed.
RemoveTrailingStar(s) ==
    IF s # <<>> /\ s[Len(s)] = STAR THEN SubSeq(s, 1, Len(s) - 1) ELSE s

\* s.replace("*", "")
RECURSIVE RemoveStars(_)
RemoveStars(s) ==
    IF s = <<>> THEN <<>>
    ELSE (IF Head(s) = STAR THEN <<>> ELSE <<Head(s)>>) \o RemoveStars(Tail(s))

\* s.split("."): the components between the dots (always at least one).
RECURSIVE split(_)
split(s) ==
    IF \A k \in 1..Len(s) : s[k] # DOT THEN <<s>>
    ELSE LET d == CHOOSE k \in 1..Len(s) :
                     s[k] = DOT /\ \A m \in 1..(k - 1) : s[m] # DOT
         IN  <<SubSeq(s, 1, d - 1)>> \o split(SubSeq(s, d + 1, Len(s)))

\* f"{name}.{child_name}"
DotJoin(name, child_name) == name \o <<DOT>> \o child_name

\* x in xs, for a list xs
InSeq(x, xs) == \E k \in 1..Len(xs) : xs[k] = x

\* ---------------------------------------------------------------- schemas

\* pydantic.fields.SHAPE_SINGLETON, and the shape of a List[...] field.
SHAPE_SINGLETON == "SINGLETON"
SHAPE_LIST      == "LIST"

\* A type is a BaseModel subclass with its __fields__ in declaration order
\* (members), or a type that is no BaseModel subclass (datetime, list,
\* NoneType, ...).
ScalarType(k) == [kind |-> k, members |-> <<>>]
Class(fs)     == [kind |-> "model", members |-> fs]
DatetimeType  == ScalarType("datetime")

\* issubclass(t, BaseModel)
IsModelType(t) == t.kind = "model"

\* A ModelField: its name, type_, shape and field_info.extra (the names of the
\* render hints the field declares a callable for).
Field(n, t, s, x) == [name |-> n, type_ |-> t, shape |-> s, extra |-> x]

\* list(model.__fields__): the field names in declaration order.
FieldNames(cls) == [k \in 1..Len(cls.members) |-> cls.members[k].name]

\* model.__fields__[name] (name is one of the class's fields).
FieldOf(cls, name) ==
    cls.members[CHOOSE k \in 1..Len(cls.members) : cls.members[k].name = name]

\* The names a field can have.  "ab" starts with "a", so a prefix can select
\* more than the children of one parent.
NameSet == {<<"a">>, <<"a", "b">>}

\* The element class of every List[...] field of the generated schemas.
ListChild == Class(<<Field(<<"a">>, DatetimeType, SHAPE_SINGLETON, {})>>)

RECURSIVE ClassFields(_, _)
\* What a field can be when it takes k of the tree's fields: a scalar or a
\* nested class with no field (k = 1), a list of ListChild (k = 2), or a
\* singular nested class with k - 1 fields in its own tree.
FieldShapes(k, X) ==
    (IF k = 1 THEN {[type_ |-> DatetimeType, shape |-> SHAPE_SINGLETON]} ELSE {})
    \cup (IF k = 2 THEN {[type_ |-> ListChild, shape |-> SHAPE_LIST]} ELSE {})
    \cup {[type_ |-> Class(fs), shape |-> SHAPE_SINGLETON] :
              fs \in ClassFields(k - 1, X)}

\* Every __fields__ with exactly n fields in its tree, each field's extra
\* drawn from X, the names of one class distinct.
ClassFields(n, X) ==
    IF n = 0 THEN {<<>>}
    ELSE UNION {
        UNION {
            {<<Field(nm, ts.type_, ts.shape, x)>> \o rest :
                 nm \in {m \in NameSet : \A q \in 1..Len(rest) : rest[q].name # m},
                 ts \in FieldShapes(k, X), x \in X} :
            rest \in ClassFields(n - k, X)} :
        k \in 1..n}

ClassSet(n, X) == UNION {{Class(fs) : fs \in ClassFields(m, X)} : m \in 0..n}

\* ---------------------------------------------------------------- flatten_fields

\* A mutation: List[BaseModel] fields are expanded like singular ones.
RECURSIVE flatten_fields_any_shape(_)
flatten_fields_any_shape(cls) ==
    LET RECURSIVE walk(_)
        walk(k) ==
            IF k > Len(cls.members) THEN <<>>
            ELSE LET field == cls.members[k]
                     name  == field.name
                 IN  (IF IsModelType(field.type_)
                      THEN LET sub == flatten_fields_any_shape(field.type_)
                           IN  [c \in 1..Len(sub) |-> DotJoin(name, sub[c])]
                      ELSE <<name>>) \o walk(k + 1)
    IN  walk(1)

\* flatten_fields(model), as the list of what the generator yields.
RECURSIVE flatten_fields(_)
flatten_fields(cls) ==
    LET RECURSIVE walk(_)
        walk(k) ==
            IF k > Len(cls.members) THEN <<>>
            ELSE LET field == cls.members[k]
                     name  == field.name
                 IN  (IF IsModelType(field.type_) /\ field.shape = SHAPE_SINGLETON
                      THEN LET sub == flatten_fields(field.type_)
                           IN  [c \in 1..Len(sub) |-> DotJoin(name, sub[c])]
                      ELSE <<name>>) \o walk(k + 1)
    IN  walk(1)

\* The generator flatten_fields(model) returns, as the chain of generators
\* that are suspended or about to run: one frame per nested call, the
\* innermost last.  k is the field the frame's for loop is at.
Frame(cls, k) == [cls |-> cls, k |-> k]

\* The f"{name}.{child_name}" strings of the frames, joined from the
\* innermost outwards.
RECURSIVE PathOf(_)
PathOf(frames) ==
    LET name == Head(frames).cls.members[Head(frames).k].name
    IN  IF Len(frames) = 1 THEN name ELSE DotJoin(name, PathOf(Tail(frames)))

\* One next() on the flatten_fields generator: the innermost loop goes on to
\* its next yield, a singular nested class starting a generator of its own
\* and an exhausted generator handing over to the loop that consumes it.
\* (at binds the frames to their value once, so that no step evaluates them
\* again for each use.)
flatten_fields_next(frames) ==
    LET RECURSIVE run(_)
        at(fr) ==
            IF fr = <<>>
            THEN [kind |-> "stop", value |-> <<>>, frames |-> <<>>]
            ELSE LET n   == Len(fr)
                     top == fr[n]
                 IN  IF top.k > Len(top.cls.members)
                     THEN run(IF n = 1 THEN <<>>
                              ELSE [SubSeq(fr, 1, n - 1) EXCEPT ![n - 1].k = @ + 1])
                     ELSE LET field == top.cls.members[top.k]
                          IN  IF /\ IsModelType(field.type_)
                                 /\ field.shape = SHAPE_SINGLETON
                              THEN run(Append(fr, Frame(field.type_, 1)))
                              ELSE [kind |-> "yield", value |-> PathOf(fr),
                                    frames |-> [fr EXCEPT ![n].k = @ + 1]]
        run(frs) == CHOOSE r \in {at(fr) : fr \in {frs}} : TRUE
    IN  run(frames)

\* ---------------------------------------------------------------- get_fields

NoError == [type |-> "NoError", entry |-> <<>>, fields |-> <<>>]

\* A mutation: the error names the entry and leaves the valid fields out.
ValueErrorWithoutFields(i, fields) ==
    [type |-> "ValueError", entry |-> i, fields |-> <<>>]

\* ValueError(f"'{i}' is not a valid field path for model: ...", list(fields))
ValueError(i, fields) == [type |-> "ValueError", entry |-> i, fields |-> fields]

\* A mutation: the fields are flattened whatever flat is.
FieldsAlwaysFlat(cls, isFlat) == flatten_fields(cls)

\* fields = list(flatten_fields(model)) if flat else model.__fields__
Fields(cls, isFlat) == IF isFlat THEN flatten_fields(cls) ELSE FieldNames(cls)

\* A mutation: the last match, not the next one.
Latest(S) == CHOOSE x \in S : \A y \in S : y <= x

Min(S) == CHOOSE x \in S : \A y \in S : x <= y

\* The generator before its first next(): at the first entry, nothing found.
GenStart == [pc |-> "suspended", i |-> 1, j |-> 1, found |-> FALSE]

\* One next() on the get_fields generator suspended at g: the body runs to its
\* next yield, to the raise, or to its end.  i is the include entry at hand,
\* j the next element of fields the loop over fields looks at.
get_fields_next(cls, incl, isFlat, g) ==
    LET fields == Fields(cls, isFlat)
        Yield(v, i, j, found) ==
            [kind |-> "yield", value |-> v, error |-> NoError,
             gen |-> [pc |-> "suspended", i |-> i, j |-> j, found |-> found]]
        Stop(i, j, found) ==
            [kind |-> "stop", value |-> <<>>, error |-> NoError,
             gen |-> [pc |-> "done", i |-> i, j |-> j, found |-> found]]
        Raise(i, j) ==
            [kind |-> "raise", value |-> <<>>,
             error |-> ValueError(incl[i], fields),
             gen |-> [pc |-> "raised", i |-> i, j |-> j, found |-> FALSE]]
        RECURSIVE run(_, _, _)
        run(i, j, found) ==
            IF incl = <<>>
            THEN IF j <= Len(fields)
                 THEN Yield(fields[j], i, j + 1, found)
                 ELSE Stop(i, j, found)
            ELSE IF i > Len(incl) THEN Stop(i, j, found)
            ELSE IF HasStar(incl[i])
            THEN LET pattern == RemoveStars(incl[i])
                     hits == {k \in j..Len(fields) : startswith(fields[k], pattern)}
                 IN  IF hits # {}
                     THEN Yield(fields[Min(hits)], i, Min(hits) + 1, TRUE)
                     ELSE IF found THEN run(i + 1, 1, FALSE) ELSE Raise(i, j)
            ELSE IF found THEN run(i + 1, 1, FALSE)
            ELSE IF InSeq(incl[i], fields) THEN Yield(incl[i], i, j, TRUE)
            ELSE Raise(i, j)
    IN  run(g.i, g.j, g.found)

\* ---------------------------------------------------------------- records

\* A runtime value: None, a datetime, a list, or an instance of a class with
\* its attributes (one per field of the class).
None         == [kind |-> "NoneType", val |-> <<>>]
Datetime     == [kind |-> "datetime", val |-> <<>>]
List(xs)     == [kind |-> "list", val |-> xs]
Inst(cls, f) == [kind |-> "model", val |-> [cls |-> cls, attrs |-> f]]

\* type(value)
TypeOf(value) == IF value.kind = "model" THEN value.val.cls ELSE ScalarType(value.kind)

NameSetOf(cls) == {cls.members[k].name : k \in 1..Len(cls.members)}

\* model_type.construct(**{field: None for field in model_type.__fields__})
construct(model_type) == Inst(model_type, [n \in NameSetOf(model_type) |-> None])

\* Every instance of cls: a scalar field holds None or a value, a singular
\* nested field None or an instance of its class, a list field None or a
\* list of one element.
RECURSIVE Instances(_)
Instances(cls) ==
    LET ValuesOf(field) ==
            IF IsModelType(field.type_)
            THEN IF field.shape = SHAPE_SINGLETON
                 THEN {None} \cup Instances(field.type_)
                 ELSE {None, List(<<construct(field.type_)>>)}
            ELSE {None, Datetime}
        All == UNION {ValuesOf(cls.members[k]) : k \in 1..Len(cls.members)}
    IN  {Inst(cls, f) : f \in {g \in [NameSetOf(cls) -> All] :
             \A k \in 1..Len(cls.members) :
                 g[cls.members[k].name] \in ValuesOf(cls.members[k])}}

\* ---------------------------------------------------------------- get_field_value_and_info

AttributeError(name) == [type |-> "AttributeError", entry |-> name, fields |-> <<>>]

\* The attribute name __fields__, which only BaseModel subclasses have.
DunderFields == <<"__fields__">>

\* model.__fields__.get(name) when name is no field of the class
NoField == Field(<<>>, ScalarType("NoneType"), SHAPE_SINGLETON, {})

KeyError(name) == [type |-> "KeyError", entry |-> name, fields |-> <<>>]

\* Attributes every BaseModel instance has that are no fields: a method, and
\* the docstring of a class written without one, which is None.
DICT == <<"dict">>
DOC  == <<"__doc__">>

\* A bound method, and the docstring of an object that has one.
Method(name) == [kind |-> "method", val |-> name]
Docstring    == [kind |-> "str", val |-> "doc"]

\* getattr(obj, name): the value of a field of a model instance, one of its
\* other attributes, the docstring of an object that is no model instance,
\* or AttributeError.
getattr(obj, name) ==
    IF obj.kind = "model" /\ name \in DOMAIN obj.val.attrs
    THEN [raised |-> FALSE, value |-> obj.val.attrs[name]]
    ELSE IF obj.kind = "model" /\ name = DICT
    THEN [raised |-> FALSE, value |-> Method(name)]
    ELSE IF obj.kind = "model" /\ name = DOC
    THEN [raised |-> FALSE, value |-> None]
    ELSE IF obj.kind # "model" /\ name = DOC
    THEN [raised |-> FALSE, value |-> Docstring]
    ELSE [raised |-> TRUE, value |-> None]

\* model.__fields__.get(name)
fields_get(obj, name) ==
    IF name \in NameSetOf(obj.val.cls) THEN FieldOf(obj.val.cls, name) ELSE NoField

\* A mutation: an absent child is descended into as it is, no placeholder.
get_field_value_and_info_no_placeholder(obj, path) ==
    LET Raised(name) == [raised |-> TRUE, error |-> AttributeError(name),
                         value |-> None, field |-> NoField]
        RECURSIVE walk(_, _)
        walk(m, k) ==
            LET got == getattr(m, path[k])
            IN  IF got.raised THEN Raised(path[k])
                ELSE IF k = Len(path)
                THEN [raised |-> FALSE, error |-> NoError, value |-> got.value,
                      field |-> fields_get(m, path[k])]
                ELSE walk(got.value, k + 1)
    IN  walk(obj, 1)

\* A mutation: an absent child ends the walk, with no value and no ModelField.
get_field_value_and_info_absent_ends(obj, path) ==
    LET Raised(e) == [raised |-> TRUE, error |-> e,
                      value |-> None, field |-> NoField]
        RECURSIVE walk(_, _)
        walk(m, k) ==
            LET p   == path[k]
                got == getattr(m, p)
            IN  IF got.raised THEN Raised(AttributeError(p))
                ELSE IF k = Len(path)
                THEN IF m.kind # "model" THEN Raised(AttributeError(DunderFields))
                     ELSE [raised |-> FALSE, error |-> NoError,
                           value |-> got.value, field |-> fields_get(m, p)]
                ELSE IF got.value = None
                THEN [raised |-> FALSE, error |-> NoError,
                      value |-> None, field |-> NoField]
                ELSE walk(got.value, k + 1)
    IN  walk(obj, 1)

\* get_field_value_and_info(model, path): the value and the ModelField, or the
\* AttributeError or KeyError that an attribute access or model.__fields__[p]
\* raised.
get_field_value_and_info(obj, path) ==
    LET Raised(e) == [raised |-> TRUE, error |-> e,
                      value |-> None, field |-> NoField]
        RECURSIVE walk(_, _)
        walk(m, k) ==
            LET p   == path[k]
                got == getattr(m, p)
            IN  IF got.raised THEN Raised(AttributeError(p))
                ELSE IF k = Len(path)
                THEN IF m.kind # "model" THEN Raised(AttributeError(DunderFields))
                     ELSE [raised |-> FALSE, error |-> NoError,
                           value |-> got.value, field |-> fields_get(m, p)]
                ELSE IF got.value = None
                THEN IF m.kind # "model" THEN Raised(AttributeError(DunderFields))
                     ELSE IF p \notin NameSetOf(m.val.cls) THEN Raised(KeyError(p))
                     ELSE LET model_type == FieldOf(m.val.cls, p).type_
                          IN  IF IsModelType(model_type)
                              THEN walk(construct(model_type), k + 1)
                              ELSE Raised(AttributeError(DunderFields))
                ELSE walk(got.value, k + 1)
    IN  walk(obj, 1)

\* ---------------------------------------------------------------- iter_model_formatted

NoRender == "None"

\* field.field_info.extra[render](value) and json_encoders[type(value)](value)
Hint(name, value) == [kind |-> "hint", val |-> <<name, value>>]
Encoded(value)    == [kind |-> "encoded", val |-> value]

\* A mutation: the type's encoder is looked up first.
FormatValueEncoderFirst(value, field, rnd, json_encoders) ==
    IF TypeOf(value) \in json_encoders THEN Encoded(value)
    ELSE IF rnd # NoRender /\ rnd \in field.extra THEN Hint(rnd, value)
    ELSE value

\* A mutation: a hint the field declares is applied when no render name was
\* requested.
FormatValueAnyHint(value, field, rnd, json_encoders) ==
    IF field # NoField /\ rnd \in field.extra THEN Hint(rnd, value)
    ELSE IF field # NoField /\ rnd = NoRender /\ field.extra # {}
    THEN Hint(CHOOSE h \in field.extra : TRUE, value)
    ELSE IF TypeOf(value) \in json_encoders THEN Encoded(value)
    ELSE value

\* The body of the loop of iter_model_formatted after the resolver returned:
\* the value yielded for (value, field).
FormatValue(value, field, rnd, json_encoders) ==
    LET field_renderer == field # NoField /\ rnd \in field.extra
    IN  IF rnd # NoRender /\ field_renderer THEN Hint(rnd, value)
        ELSE IF TypeOf(value) \in json_encoders THEN Encoded(value)
        ELSE value

\* A mutation: every include entry is checked before the first pair is
\* yielded.
iter_model_formatted_next_validating(obj, incl, isFlat, rnd, json_encoders, g) ==
    LET fields == Fields(obj.val.cls, isFlat)
        bad == {i \in 1..Len(incl) :
                   IF HasStar(incl[i])
                   THEN \A k \in 1..Len(fields) :
                            ~startswith(fields[k], RemoveStars(incl[i]))
                   ELSE ~InSeq(incl[i], fields)}
        nxt == get_fields_next(obj.val.cls, incl, isFlat, g)
    IN  IF bad # {}
        THEN [kind |-> "raise", value |-> <<>>,
              error |-> ValueError(incl[Min(bad)], fields),
              gen |-> [g EXCEPT !.pc = "raised", !.i = Min(bad)]]
        ELSE IF nxt.kind # "yield" THEN nxt
        ELSE LET name == nxt.value
                 got  == get_field_value_and_info(obj, split(name))
             IN  [nxt EXCEPT !.value =
                     <<name, FormatValue(got.value, got.field, rnd, json_encoders)>>]

\* One next() on the iter_model_formatted generator: the next name of
\* get_fields is resolved and formatted, and the pair yielded.
iter_model_formatted_next(obj, incl, isFlat, rnd, json_encoders, g) ==
    LET nxt == get_fields_next(obj.val.cls, incl, isFlat, g)
    IN  IF nxt.kind # "yield" THEN nxt
        ELSE LET name == nxt.value
                 got  == get_field_value_and_info(obj, split(name))
             IN  IF got.raised
                 THEN [kind |-> "raise", value |-> <<>>, error |-> got.error,
                       gen |-> [nxt.gen EXCEPT !.pc = "raised"]]
                 ELSE [nxt EXCEPT !.value =
                          <<name, FormatValue(got.value, got.field, rnd, json_encoders)>>]

\* ---------------------------------------------------------------- csv.DictReader

\* The text of a cell that holds a line break inside quotes.
TwoLineCell == "n\nn"

\* The number of line breaks inside a cell.
Newlines(cell) == IF cell = TwoLineCell THEN 1 ELSE 0

RECURSIVE SumNewlines(_)
SumNewlines(cells) ==
    IF cells = <<>> THEN 0 ELSE Newlines(Head(cells)) + SumNewlines(Tail(cells))

\* The number of lines of the file one record of csv.reader takes: a blank
\* line is the record [], a quoted line break makes a record span two lines.
LinesOf(cells) == 1 + SumNewlines(cells)

\* A str value.
Str(text) == [kind |-> "str", val |-> text]

\* DictReader(file, fieldnames): nothing read yet.  pos is the number of
\* records csv.reader has returned, reader_line_num its line_num.
NoFieldnames == <<>>
DictReader(fieldnames) ==
    [fieldnames |-> fieldnames, pos |-> 0, reader_line_num |-> 0, line_num |-> 0]

\* next(self.reader), when a record is left
ReaderAdvance(src, r) ==
    [r EXCEPT !.pos = @ + 1, !.reader_line_num = @ + LinesOf(src[r.pos + 1])]

\* The fieldnames property: reads the header when no fieldnames are set, and
\* always copies the reader's line_num.
DictReaderFieldnames(src, r) ==
    LET r1 == IF r.fieldnames = NoFieldnames /\ r.pos < Len(src)
              THEN [ReaderAdvance(src, r) EXCEPT !.fieldnames = src[r.pos + 1]]
              ELSE r
    IN  [r1 EXCEPT !.line_num = r1.reader_line_num]

\* dict(zip(fieldnames, row)), short rows filled with restval=None.
RowDict(fieldnames, row) ==
    [key \in {fieldnames[k] : k \in 1..Len(fieldnames)} |->
        LET k == CHOOSE q \in 1..Len(fieldnames) :
                     fieldnames[q] = key
                     /\ \A m \in (q + 1)..Len(fieldnames) : fieldnames[m] # key
        IN  IF k <= Len(row) THEN Str(row[k]) ELSE None]

\* DictReader.__next__: the next row that is not blank as a dict, or
\* StopIteration (stop).
DictReaderNext(src, r) ==
    LET r1 == IF r.line_num = 0 THEN DictReaderFieldnames(src, r) ELSE r
        Stop(rr) == [stop |-> TRUE, row |-> <<>>, reader |-> rr]
        RECURSIVE skip(_)
        \* while row == []: row = next(self.reader)
        skip(rr) ==
            IF src[rr.pos] # <<>>
            THEN LET r3 == DictReaderFieldnames(src, rr)
                 IN  [stop |-> FALSE, row |-> RowDict(r3.fieldnames, src[rr.pos]),
                      reader |-> r3]
            ELSE IF rr.pos < Len(src) THEN skip(ReaderAdvance(src, rr))
            ELSE Stop(rr)
    IN  IF r1.pos >= Len(src) THEN Stop(r1)
        ELSE LET r2 == ReaderAdvance(src, r1)
             IN  skip([r2 EXCEPT !.line_num = r2.reader_line_num])

\* ---------------------------------------------------------------- reading CSV

\* A mutation: the cells are left as read.
NormalizeRowNothing(row) == row

\* for key, val in row.items(): if val == "": row[key] = None
NormalizeRow(row) ==
    [key \in DOMAIN row |-> IF row[key] = Str("") THEN None ELSE row[key]]

\* The class the rows are read into: id: int (required), name: Optional[str].
\* list(model.__fields__)
RowClassFields == <<"id", "name">>

\* A mutation: an absent name is given a default value.
ValidateRowNameDefault(row) ==
    LET id == IF "id" \in DOMAIN row THEN row["id"] ELSE None
        name == IF "name" \in DOMAIN row /\ row["name"] # None
                THEN row["name"] ELSE Str("n")
    IN  IF id = Str("7")
        THEN [ok |-> TRUE, value |-> [id |-> [kind |-> "int", val |-> 7], name |-> name]]
        ELSE [ok |-> FALSE, value |-> [id |-> id, name |-> name]]

\* model(**row): the instance, or a ValidationError.
ValidateRow(row) ==
    LET id == IF "id" \in DOMAIN row THEN row["id"] ELSE None
        name == IF "name" \in DOMAIN row THEN row["name"] ELSE None
    IN  IF id = Str("7")
        THEN [ok |-> TRUE, value |-> [id |-> [kind |-> "int", val |-> 7], name |-> name]]
        ELSE [ok |-> FALSE, value |-> [id |-> id, name |-> name]]

NoCsvError == [type |-> "NoError", row |-> 0, msg_row |-> 0]

\* A mutation: the header line is not counted.
CSVValidationErrorSkippingHeader(msg_row, row) ==
    [type |-> "CSVValidationError", row |-> row - 1, msg_row |-> msg_row - 1]

\* CSVValidationError(msg, row): msg_row is the row number the message names.
CSVValidationError(msg_row, row) ==
    [type |-> "CSVValidationError", row |-> row, msg_row |-> msg_row]

\* A mutation: an error already recorded is kept.
RowErrorKeepFirst(error, line_num) ==
    IF error # NoCsvError THEN error ELSE CSVValidationError(line_num, line_num)

\* except ValidationError as err: error = CSVValidationError(
\*     f"Bad data in row {reader.line_num} of {path}\n{str(err)}",
\*     row=reader.line_num)
RowError(error, line_num) == CSVValidationError(line_num, line_num)

\* ---------------------------------------------------------------- the calls

\* The include entries a caller passes: a, a.a, a*, a.*, * and *ab.
IncludeEntries ==
    { <<"a">>, <<"a", DOT, "a">>, <<"a", STAR>>, <<"a", DOT, STAR>>, <<STAR>>,
      <<STAR, "a", "b">> }

SeqsUpTo(S, n) == UNION {[1..m -> S] : m \in 0..n}

\* No CSV call is in progress.
ReadIdle ==
    /\ source = <<>>
    /\ reader = <<>>
    /\ rd = <<>>
    /\ yielded = <<>>

FieldsIdle ==
    /\ model = Class(<<>>)
    /\ include = <<>>
    /\ flat = FALSE
    /\ gen = GenStart
    /\ out = <<>>
    /\ err = NoError
    /\ instance = None
    /\ render = NoRender
    /\ config = {}
    /\ emitted = <<>>
    /\ flattening = <<>>

WriteIdle ==
    /\ wr = <<>>
    /\ file = <<>>

ResolveIdle ==
    /\ fieldPath = <<>>
    /\ resolved = <<>>

EnumIdle ==
    /\ enumCls = <<>>
    /\ lookup = <<>>
    /\ looked = <<>>

\* get_fields(model, include, flat) has been called: the generator exists and
\* has not run.
InitFields ==
    /\ model \in ClassSet(MaxNodes, {{}})
    /\ include \in SeqsUpTo(IncludeEntries, MaxInclude)
    /\ flat \in BOOLEAN
    /\ gen = GenStart
    /\ out = <<>>
    /\ err = NoError
    /\ instance = None
    /\ render = NoRender
    /\ config = {}
    /\ emitted = <<>>
    /\ flattening = <<>>
    /\ ReadIdle
    /\ WriteIdle
    /\ ResolveIdle
    /\ EnumIdle

\* next() on the get_fields generator.
GetFieldsNext ==
    /\ instance = None
    /\ gen.pc = "suspended"
    /\ LET nxt == get_fields_next(model, include, flat, gen)
       IN  /\ gen' = nxt.gen
           /\ err' = nxt.error
           /\ out' = IF nxt.kind = "yield" THEN Append(out, nxt.value) ELSE out
    /\ UNCHANGED <<model, include, flat, instance, render, config, emitted,
                   flattening>>
    /\ UNCHANGED <<readVars, writeVars, resolveVars, enumVars>>

NextFields == GetFieldsNext

SpecFields == InitFields /\ [][NextFields]_vars

\* get_fields(model, flat=True) has been called without include: what the
\* generator yields is what flatten_fields yields.
InitFlatten ==
    /\ model \in ClassSet(MaxNodes, {{}})
    /\ include = <<>>
    /\ flat = TRUE
    /\ gen = GenStart
    /\ out = <<>>
    /\ err = NoError
    /\ instance = None
    /\ render = NoRender
    /\ config = {}
    /\ emitted = <<>>
    /\ flattening = <<>>
    /\ ReadIdle
    /\ WriteIdle
    /\ ResolveIdle
    /\ EnumIdle

NextFlatten == GetFieldsNext

SpecFlatten == InitFlatten /\ [][NextFlatten]_vars

\* The forms an include entry can take: a name, a dotted path, the empty
\* string, and entries with "*" at the end, at the start, inside, alone or
\* twice.
EntryForms ==
    { <<>>, <<"a">>, <<"a", "b">>, <<"a", DOT, "a">>,
      <<STAR>>, <<STAR, STAR>>, <<"a", STAR>>, <<STAR, "a", "b">>,
      <<"a", STAR, "b">>, <<"a", DOT, STAR>>, <<"a", STAR, DOT, STAR, "a">> }

\* get_fields(model, include, flat) has been called with one include entry.
InitEntry ==
    /\ model \in ClassSet(MaxNodes, {{}})
    /\ include \in {<<e>> : e \in EntryForms}
    /\ flat \in BOOLEAN
    /\ gen = GenStart
    /\ out = <<>>
    /\ err = NoError
    /\ instance = None
    /\ render = NoRender
    /\ config = {}
    /\ emitted = <<>>
    /\ flattening = <<>>
    /\ ReadIdle
    /\ WriteIdle
    /\ ResolveIdle
    /\ EnumIdle

NextEntry == GetFieldsNext

SpecEntry == InitEntry /\ [][NextEntry]_vars

\* A consumer of flatten_fields of its own, before its first call.  calls
\* counts the invocations on the schema, earlier holds what each generator
\* before the one at hand had yielded when it was left.
InitRestart ==
    /\ model = Class(<<>>)
    /\ flattening = [pc |-> "uncalled", frames |-> <<>>, yielded |-> <<>>,
                     calls |-> 0, earlier |-> <<>>]
    /\ include = <<>>
    /\ flat = TRUE
    /\ gen = GenStart
    /\ out = <<>>
    /\ err = NoError
    /\ instance = None
    /\ render = NoRender
    /\ config = {}
    /\ emitted = <<>>
    /\ ReadIdle
    /\ WriteIdle
    /\ ResolveIdle
    /\ EnumIdle

\* flatten_fields(model) is called on a schema: the generator exists and has
\* not run.
FlattenCall ==
    /\ flattening.pc = "uncalled"
    /\ \E cls \in ClassSet(MaxNodes, {{}}) :
           /\ model' = cls
           /\ flattening' = [flattening EXCEPT !.pc = "suspended",
                                               !.frames = <<Frame(cls, 1)>>,
                                               !.calls = 1]
    /\ UNCHANGED <<include, flat, gen, out, err, instance, render, config,
                   emitted>>
    /\ UNCHANGED <<readVars, writeVars, resolveVars, enumVars>>

\* next() on the flatten_fields generator.
FlattenNext ==
    /\ flattening.pc = "suspended"
    /\ LET nxt == flatten_fields_next(flattening.frames)
       IN  flattening' =
               [flattening EXCEPT
                   !.pc = IF nxt.kind = "yield" THEN "suspended" ELSE "done",
                   !.frames = nxt.frames,
                   !.yielded = IF nxt.kind = "yield" THEN Append(@, nxt.value)
                               ELSE @]
    /\ UNCHANGED <<model, include, flat, gen, out, err, instance, render,
                   config, emitted>>
    /\ UNCHANGED <<readVars, writeVars, resolveVars, enumVars>>

\* A mutation: the new invocation goes on where the generator before it was.
ReinvokeResuming ==
    /\ flattening.pc # "uncalled"
    /\ flattening.calls <= MaxRestarts
    /\ flattening' =
           [flattening EXCEPT
               !.yielded = <<>>,
               !.calls = @ + 1,
               !.earlier = Append(@, [complete |-> flattening.pc = "done",
                                      yielded |-> flattening.yielded])]
    /\ UNCHANGED <<model, include, flat, gen, out, err, instance, render,
                   config, emitted>>
    /\ UNCHANGED <<readVars, writeVars, resolveVars, enumVars>>

\* The consumer leaves the generator, exhausted or not, and calls
\* flatten_fields(model) again: a new generator, at the first field.
Reinvoke ==
    /\ flattening.pc # "uncalled"
    /\ flattening.calls <= MaxRestarts
    /\ flattening' =
           [pc |-> "suspended", frames |-> <<Frame(model, 1)>>,
            yielded |-> <<>>, calls |-> flattening.calls + 1,
            earlier |-> Append(flattening.earlier,
                               [complete |-> flattening.pc = "done",
                                yielded |-> flattening.yielded])]
    /\ UNCHANGED <<model, include, flat, gen, out, err, instance, render,
                   config, emitted>>
    /\ UNCHANGED <<readVars, writeVars, resolveVars, enumVars>>

NextRestart == FlattenCall \/ FlattenNext \/ Reinvoke

SpecRestart == InitRestart /\ [][NextRestart]_vars

\* A consumer that iterates the generator keeps calling next(), and no
\* next() waits for anything.
SpecRestartFair == SpecRestart /\ WF_vars(FlattenNext)

\* iter_model_formatted(model, include, flat, render) has been called on an
\* instance of a class whose fields declare a "table" render hint, or of one
\* whose fields declare none.  include is absent, or ["a*", "a.a"].
InitFormat ==
    /\ model \in ClassSet(MaxNodes, {{}}) \cup ClassSet(MaxNodes, {{"table"}})
    /\ instance \in Instances(model)
    /\ include \in {<<>>, << <<"a", STAR>>, <<"a", DOT, "a">> >>}
    /\ flat \in BOOLEAN
    /\ render \in {NoRender, "table"}
    /\ config \in {{}, {DatetimeType}}
    /\ gen = GenStart
    /\ out = <<>>
    /\ err = NoError
    /\ emitted = <<>>
    /\ flattening = <<>>
    /\ ReadIdle
    /\ WriteIdle
    /\ ResolveIdle
    /\ EnumIdle

\* A mutation: the placeholders made for absent nested records are stored in
\* the record.
RECURSIVE StorePlaceholders(_, _)
StorePlaceholders(obj, path) ==
    IF Len(path) <= 1 THEN obj
    ELSE LET p     == Head(path)
             v     == obj.val.attrs[p]
             child == IF v = None THEN construct(FieldOf(obj.val.cls, p).type_)
                      ELSE v
         IN  Inst(obj.val.cls,
                  [obj.val.attrs EXCEPT ![p] = StorePlaceholders(child, Tail(path))])

IterNextStoringPlaceholders ==
    /\ instance # None
    /\ gen.pc = "suspended"
    /\ LET nxt == iter_model_formatted_next(instance, include, flat, render,
                                            config, gen)
       IN  /\ gen' = nxt.gen
           /\ err' = nxt.error
           /\ out' = IF nxt.kind = "yield" THEN Append(out, nxt.value[1]) ELSE out
           /\ emitted' = IF nxt.kind = "yield" THEN Append(emitted, nxt.value)
                         ELSE emitted
           /\ instance' = IF nxt.kind = "yield"
                          THEN StorePlaceholders(instance, split(nxt.value[1]))
                          ELSE instance
    /\ UNCHANGED <<model, include, flat, render, config, flattening>>
    /\ UNCHANGED <<readVars, writeVars, resolveVars, enumVars>>

\* next() on the iter_model_formatted generator.
IterNext ==
    /\ instance # None
    /\ gen.pc = "suspended"
    /\ LET nxt == iter_model_formatted_next(instance, include, flat, render,
                                            config, gen)
       IN  /\ gen' = nxt.gen
           /\ err' = nxt.error
           /\ out' = IF nxt.kind = "yield" THEN Append(out, nxt.value[1]) ELSE out
           /\ emitted' = IF nxt.kind = "yield" THEN Append(emitted, nxt.value)
                         ELSE emitted
    /\ UNCHANGED <<model, include, flat, instance, render, config, flattening>>
    /\ UNCHANGED <<readVars, writeVars, resolveVars, enumVars>>

NextFormat == IterNext

SpecFormat == InitFormat /\ [][NextFormat]_vars

\* The components of a path handed to get_field_value_and_info: names that
\* can be fields, attributes that are no fields, and a name of no attribute.
PathNames == NameSet \cup {DICT, DOC, <<"z">>}

\* get_field_value_and_info(model, path) has been called on an instance.
InitResolve ==
    /\ model \in ClassSet(MaxNodes, {{}})
    /\ instance \in Instances(model)
    /\ fieldPath \in SeqsUpTo(PathNames, MaxPath) \ {<<>>}
    /\ resolved = [pc |-> "called", raised |-> FALSE, error |-> NoError,
                   value |-> None, field |-> NoField]
    /\ include = <<>>
    /\ flat = FALSE
    /\ gen = GenStart
    /\ out = <<>>
    /\ err = NoError
    /\ render = NoRender
    /\ config = {}
    /\ emitted = <<>>
    /\ flattening = <<>>
    /\ ReadIdle
    /\ WriteIdle
    /\ EnumIdle

\* The call runs: it returns (value, field) or raises.
Resolve ==
    /\ resolved.pc = "called"
    /\ LET got == get_field_value_and_info(instance, fieldPath)
       IN  resolved' = [pc |-> IF got.raised THEN "raised" ELSE "returned",
                        raised |-> got.raised, error |-> got.error,
                        value |-> got.value, field |-> got.field]
    /\ UNCHANGED <<fieldVars, fieldPath, readVars, writeVars, enumVars>>

NextResolve == Resolve

SpecResolve == InitResolve /\ [][NextResolve]_vars

\* ---------------------------------------------------------------- C1

\* A place in a schema tree: the indices of the fields walked from the root.
IndexPaths == SeqsUpTo(1..Cardinality(NameSet), MaxNodes)

\* The field a place names, or NoField when the place leaves the tree or goes
\* through a field that is no singular nested schema.
RECURSIVE FieldAt(_, _)
FieldAt(cls, ip) ==
    IF ip = <<>> \/ Head(ip) > Len(cls.members) THEN NoField
    ELSE LET field == cls.members[Head(ip)]
         IN  IF Len(ip) = 1 THEN field
             ELSE IF IsModelType(field.type_) /\ field.shape = SHAPE_SINGLETON
             THEN FieldAt(field.type_, Tail(ip))
             ELSE NoField

IsSingularNested(field) ==
    IsModelType(field.type_) /\ field.shape = SHAPE_SINGLETON

\* The leaves reachable through singular nested fields.
Leaves(cls) ==
    {ip \in IndexPaths : FieldAt(cls, ip) # NoField
                         /\ ~IsSingularNested(FieldAt(cls, ip))}

\* The dot-joined names along a place.
RECURSIVE PathName(_, _)
PathName(cls, ip) ==
    LET field == cls.members[Head(ip)]
    IN  IF Len(ip) = 1 THEN field.name
        ELSE DotJoin(field.name, PathName(field.type_, Tail(ip)))

\* Depth-first, declaration order: the first index that differs decides.
Before(p, q) ==
    \E k \in 1..Len(p) :
        /\ k <= Len(q)
        /\ p[k] < q[k]
        /\ \A m \in 1..(k - 1) : p[m] = q[m]

\* C1: flatten_fields yields exactly one dot-joined path per leaf reachable
\* through singular nested fields, depth-first in declaration order; a field
\* that is a list of nested schemas is one path, and no path goes below it.
C1_FlattenFields ==
    LET fl     == flatten_fields(model)
        leaves == Leaves(model)
        \* the leaf with i - 1 leaves before it
        nth(i) == CHOOSE ip \in leaves :
                      Cardinality({q \in leaves : Before(q, ip)}) = i - 1
    IN  /\ fl = [i \in 1..Cardinality(leaves) |-> PathName(model, nth(i))]
        /\ \A ip \in leaves :
               FieldAt(model, ip).shape = SHAPE_LIST
               => \A k \in 1..Len(fl) :
                      ~startswith(fl[k], PathName(model, ip) \o <<DOT>>)

\* A nested schema is expanded and the list field inside it is not.
C1_Witness ==
    /\ gen.pc = "done"
    /\ flat /\ include = <<>>
    /\ \E ip \in Leaves(model) :
           Len(ip) = 2 /\ FieldAt(model, ip).shape = SHAPE_LIST
    /\ out = flatten_fields(model)
    /\ Len(out) = 1

\* ---------------------------------------------------------------- C2

\* The value and metadata the resolver finds for a yielded name.
Resolved(name) == get_field_value_and_info(instance, split(name))

\* C2: for every path flatten_fields or get_fields produces over the schema
\* and every instance of it, whichever nested records are absent,
\* get_field_value_and_info returns without raising.
C2_ResolverTotal ==
    /\ \A isFlat \in BOOLEAN :
           \A k \in 1..Len(Fields(model, isFlat)) :
               instance # None => ~Resolved(Fields(model, isFlat)[k]).raised
    /\ err.type # "AttributeError"

\* A path of three components has been resolved in an instance whose first
\* nested record is absent: the walk went through two placeholders.
C2_Witness ==
    \E k \in 1..Len(emitted) :
        LET path == split(emitted[k][1])
        IN  /\ Len(path) = 3
            /\ instance.val.attrs[path[1]] = None
            /\ ~Resolved(emitted[k][1]).raised

\* ---------------------------------------------------------------- C3

\* C3: a field that declares a transformation under the requested render name
\* and whose value's type has an encoder is emitted as the hint's
\* transformation of the raw value, the encoder not applied.
C3_HintBeforeEncoder ==
    \A k \in 1..Len(emitted) :
        LET got == Resolved(emitted[k][1])
        IN  (/\ render # NoRender
             /\ render \in got.field.extra
             /\ TypeOf(got.value) \in config)
            => emitted[k][2] = Hint(render, got.value)

\* A datetime field with a "table" hint, on a class with a datetime encoder,
\* has been emitted with render="table".
C3_Witness ==
    \E k \in 1..Len(emitted) :
        /\ render = "table"
        /\ "table" \in Resolved(emitted[k][1]).field.extra
        /\ Resolved(emitted[k][1]).value = Datetime
        /\ DatetimeType \in config
        /\ emitted[k][2] = Hint("table", Datetime)

\* ---------------------------------------------------------------- C4

\* An entry with no "*", and an entry "p*": one "*", at the end.
IsExactEntry(e)    == ~HasStar(e)
IsWildcardEntry(e) ==
    /\ e # <<>>
    /\ e[Len(e)] = STAR
    /\ \A k \in 1..(Len(e) - 1) : e[k] # STAR

\* The fields an entry of one of these two forms selects, in schema order.
Selected(e, fields) ==
    LET Keep(f) == IF IsWildcardEntry(e)
                   THEN /\ Len(f) >= Len(e) - 1
                        /\ SubSeq(f, 1, Len(e) - 1) = SubSeq(e, 1, Len(e) - 1)
                   ELSE f = e
    IN  SelectSeq(fields, Keep)

RECURSIVE SelectedByAll(_, _)
SelectedByAll(incl, fields) ==
    IF incl = <<>> THEN <<>>
    ELSE Selected(Head(incl), fields) \o SelectedByAll(Tail(incl), fields)

IsPrefix(s, t) == Len(s) <= Len(t) /\ SubSeq(t, 1, Len(s)) = s

\* C4: with an include list of exact and "p*" entries, get_fields yields only
\* what the entries select (an exact entry the field equal to it, "p*" the
\* fields that start with p), and all of it when it returns.
C4_IncludeSelects ==
    (/\ instance = None
     /\ include # <<>>
     /\ \A k \in 1..Len(include) :
            IsExactEntry(include[k]) \/ IsWildcardEntry(include[k]))
    => LET want == SelectedByAll(include, Fields(model, flat))
       IN  /\ IsPrefix(out, want)
           /\ gen.pc = "done" => out = want

\* include=["a.*"], flat, over a schema with a field outside "a.": the call
\* has returned the fields below a and not the other one.
C4_Witness ==
    /\ instance = None
    /\ gen.pc = "done"
    /\ flat
    /\ include = << <<"a", DOT, STAR>> >>
    /\ out # <<>>
    /\ Len(out) < Len(Fields(model, flat))

\* ---------------------------------------------------------------- C5

\* The positions of the fields an include entry matches.
Matches(e, fields) ==
    {k \in 1..Len(fields) :
        IF HasStar(e) THEN startswith(fields[k], RemoveStars(e)) ELSE fields[k] = e}

\* C5: an include entry that matches no field makes get_fields fail at that
\* entry with the entry and the complete list of valid field names; a call
\* that returns has matched every entry.
C5_UnmatchedEntryRaises ==
    instance = None =>
        LET fields == Fields(model, flat)
        IN  /\ gen.pc = "raised" =>
                /\ err.type = "ValueError"
                /\ err.entry = include[gen.i]
                /\ err.fields = fields
                /\ Matches(include[gen.i], fields) = {}
                /\ \A k \in 1..(gen.i - 1) : Matches(include[k], fields) # {}
            /\ gen.pc = "done" =>
                \A k \in 1..Len(include) : Matches(include[k], fields) # {}
            /\ gen.pc # "raised" => err = NoError

\* The second entry matched nothing in a schema that has fields: the call
\* failed after the first entry's fields.
C5_Witness ==
    /\ instance = None
    /\ gen.pc = "raised"
    /\ gen.i = 2
    /\ out # <<>>
    /\ err.fields # <<>>

\* ---------------------------------------------------------------- read_models_from_csv, read_dict_from_csv

\* The first line of a source with a header.
Header == <<"id", "name">>

\* The records a source can hold after its first line: id and name cells, a
\* short record with the id cell only, and a blank line.  No record is longer
\* than the header.
RowSet ==
    {<<i, n>> : i \in {"7", "x"}, n \in {"n", "", TwoLineCell}}
    \cup {<<"7">>, <<"">>, <<>>}

SourceSet == {<<>>} \cup {<<Header>> \o rows : rows \in SeqsUpTo(RowSet, MaxRows)}

\* read_models_from_csv(model, path) or read_dict_from_csv(path, field_names)
\* has been called, with a path or with an open stream: the generator exists
\* and has not run.
InitRead ==
    /\ source \in SourceSet
    /\ reader = DictReader(NoFieldnames)
    /\ \E op \in {"models", "dict"}, given \in {"path", "stream"},
          field_names \in {NoFieldnames, Header} :
           /\ op = "models" => field_names = NoFieldnames
           /\ rd = [op |-> op, pc |-> "created", error |-> NoCsvError,
                    given |-> given, field_names |-> field_names,
                    handle |-> IF given = "stream" THEN "caller's" ELSE "none",
                    last |-> <<>>]
    /\ yielded = <<>>
    /\ FieldsIdle
    /\ WriteIdle
    /\ ResolveIdle
    /\ EnumIdle

\* The first next(): the file is opened when a path was given, and the
\* DictReader made.
ReadStart ==
    /\ rd.pc = "created"
    /\ rd' = [rd EXCEPT !.pc = "loop",
                        !.handle = IF rd.given = "path" THEN "open" ELSE @]
    /\ reader' = DictReader(rd.field_names)
    /\ UNCHANGED <<source, yielded, fieldVars, writeVars, resolveVars, enumVars>>

\* A mutation: the first row that fails validation ends the call.
ReadRowFailFast ==
    /\ rd.pc = "loop"
    /\ LET nxt == DictReaderNext(source, reader)
           row == NormalizeRow(nxt.row)
       IN  /\ ~nxt.stop
           /\ reader' = nxt.reader
           /\ IF rd.op = "dict" \/ ValidateRow(row).ok
              THEN /\ yielded' = Append(yielded, IF rd.op = "dict" THEN row
                                                 ELSE ValidateRow(row).value)
                   /\ rd' = [rd EXCEPT !.last = row]
              ELSE /\ yielded' = yielded
                   /\ rd' = [rd EXCEPT !.last = row, !.pc = "raised",
                                !.error = RowError(rd.error, nxt.reader.line_num)]
    /\ UNCHANGED <<source, fieldVars, writeVars, resolveVars, enumVars>>

\* A mutation: the turn that handles the last row raises the recorded error.
ReadRowRaisingAtLastRow ==
    /\ rd.pc = "loop"
    /\ LET nxt  == DictReaderNext(source, reader)
           row  == NormalizeRow(nxt.row)
           ok   == rd.op = "dict" \/ ValidateRow(row).ok
           e    == IF ok THEN rd.error
                   ELSE RowError(rd.error, nxt.reader.line_num)
           last == DictReaderNext(source, nxt.reader).stop
       IN  /\ ~nxt.stop
           /\ reader' = nxt.reader
           /\ yielded' = IF ok THEN Append(yielded, IF rd.op = "dict" THEN row
                                                    ELSE ValidateRow(row).value)
                         ELSE yielded
           /\ rd' = [rd EXCEPT !.last = row, !.error = e,
                               !.pc = IF last /\ e # NoCsvError THEN "raised"
                                      ELSE @]
    /\ UNCHANGED <<source, fieldVars, writeVars, resolveVars, enumVars>>

\* One turn of `for row in reader`: the row is normalized, then yielded
\* (read_dict_from_csv), or handed to the model and the instance yielded or
\* the ValidationError recorded (read_models_from_csv).
ReadRow ==
    /\ rd.pc = "loop"
    /\ LET nxt == DictReaderNext(source, reader)
           row == NormalizeRow(nxt.row)
       IN  /\ ~nxt.stop
           /\ reader' = nxt.reader
           /\ IF rd.op = "dict" \/ ValidateRow(row).ok
              THEN /\ yielded' = Append(yielded, IF rd.op = "dict" THEN row
                                                 ELSE ValidateRow(row).value)
                   /\ rd' = [rd EXCEPT !.last = row]
              ELSE /\ yielded' = yielded
                   /\ rd' = [rd EXCEPT !.last = row,
                                !.error = RowError(rd.error, nxt.reader.line_num)]
    /\ UNCHANGED <<source, fieldVars, writeVars, resolveVars, enumVars>>

\* The reader is exhausted: `if error: raise error`, or the generator ends.
ReadEnd ==
    /\ rd.pc = "loop"
    /\ LET nxt == DictReaderNext(source, reader)
       IN  /\ nxt.stop
           /\ reader' = nxt.reader
    /\ rd' = [rd EXCEPT !.pc = IF rd.op = "models" /\ rd.error # NoCsvError
                               THEN "raised" ELSE "done"]
    /\ UNCHANGED <<source, yielded, fieldVars, writeVars, resolveVars, enumVars>>

\* Neither reader closes the file it opened.  After the generator has ended
\* the file object is closed by its finalizer, when the runtime collects it.
ReadCollect ==
    /\ rd.pc \in {"done", "raised"}
    /\ rd.handle = "open"
    /\ rd' = [rd EXCEPT !.handle = "closed"]
    /\ UNCHANGED <<source, reader, yielded, fieldVars, writeVars, resolveVars, enumVars>>

NextRead == ReadStart \/ ReadRow \/ ReadEnd \/ ReadCollect

SpecRead == InitRead /\ [][NextRead]_vars

\* ---------------------------------------------------------------- csv.DictWriter

\* A mutation: every value is written as its str().
CellTextStr(value) ==
    IF value = None THEN "None"
    ELSE IF value.kind = "int" THEN ToString(value.val)
    ELSE value.val

\* The text csv.writer writes for a value: None is the empty string, a
\* number its str().
CellText(value) ==
    IF value = None THEN ""
    ELSE IF value.kind = "int" THEN ToString(value.val)
    ELSE value.val

\* DictWriter.writerow(rowdict) with restval="" and extrasaction="raise":
\* the cells written, or the ValueError for keys that are no fieldnames.
DictWriterRow(fieldnames, rowdict) ==
    IF \E key \in DOMAIN rowdict : ~InSeq(key, fieldnames)
    THEN [raised |-> TRUE, cells |-> <<>>]
    ELSE [raised |-> FALSE,
          cells |-> [q \in 1..Len(fieldnames) |->
                        IF fieldnames[q] \in DOMAIN rowdict
                        THEN CellText(rowdict[fieldnames[q]]) ELSE ""]]

\* ---------------------------------------------------------------- write_models_to_csv

\* An instance handed to the writer: list(model.__fields__) and the values.
WriteInst(fields, vals) == [fields |-> fields, vals |-> vals]

\* The instances written: a class with the fields id, name and size, name
\* and size optional, and a class with the fields id and extra.
WriteInstances ==
    {WriteInst(<<"id", "name", "size">>,
               [f \in {"id", "name", "size"} |->
                   IF f = "id" THEN Str("1") ELSE IF f = "name" THEN n ELSE z]) :
         n \in {None, Str("n")}, z \in {None, Str("9")}}
    \cup {WriteInst(<<"id", "extra">>, [f \in {"id", "extra"} |-> Str("1")])}

\* The columns argument: absent, or the field names (write_models_to_csv
\* makes a set of them; write_dict_to_csv splits a string into a list).
NoColumns == [given |-> FALSE, names |-> {}]
Columns(names) == [given |-> TRUE, names |-> names]

\* A mutation: the dict is keyed by the display aliases (by_alias=True), where
\* the field size has the alias fileSize.
Alias(f) == IF f = "size" THEN "fileSize" ELSE f

ModelDictByAlias(inst, columns) ==
    [a \in {Alias(g) : g \in {h \in DOMAIN inst.vals :
                                  ~columns.given \/ h \in columns.names}} |->
        inst.vals[CHOOSE g \in DOMAIN inst.vals : Alias(g) = a]]

\* model.dict(by_alias=False, include=columns)
ModelDict(inst, columns) ==
    [f \in {g \in DOMAIN inst.vals : ~columns.given \/ g \in columns.names} |->
        inst.vals[f]]

\* What the destination holds before a call that is given a path.
OldContent == << <<"old">> >>

\* ---------------------------------------------------------------- write_dict_to_csv

\* A dict: its items, in insertion order.
Dict(items) == [kind |-> "dict", val |-> items]

\* key in d, and d[key]
HasKey(d, key) == \E k \in 1..Len(d.val) : d.val[k][1] = key
GetItem(d, key) == d.val[CHOOSE k \in 1..Len(d.val) : d.val[k][1] = key][2]

\* {c: d[c] for c in columns}
Restrict(d, columns) ==
    Dict([k \in 1..Len(columns) |-> <<columns[k], GetItem(d, columns[k])>>])

\* The mappings handed to write_dict_to_csv: scalar values, and one that
\* holds a nested mapping.
WriteDicts ==
    {Dict(<< <<"id", Str("1")>>, <<"name", n>> >>) : n \in {None, Str("n")}}
    \cup {Dict(<< <<"id", Str("1")>>,
                  <<"sub", Dict(<< <<"a", Str("x")>> >>)>> >>)}

\* flatten_fields(x) as write_dict_to_csv calls it: flatten_fields is a
\* generator function, so the call returns a generator object and runs none
\* of the body, whatever x is.
GeneratorObject == [kind |-> "generator", val |-> <<>>]
flatten_fields_call(x) == GeneratorObject

\* x.keys(): the keys of a dict in order; a generator object has no keys
\* attribute (AttributeError).
keys(x) ==
    IF x.kind = "dict"
    THEN [raised |-> FALSE, value |-> [k \in 1..Len(x.val) |-> x.val[k][1]]]
    ELSE [raised |-> TRUE, value |-> <<>>]

\* ---------------------------------------------------------------- the write calls

\* write_models_to_csv(models, path, columns) or write_dict_to_csv(models,
\* path, columns) has been called, with a path or with an open stream.
InitWrite ==
    /\ \E op \in {"models", "dict"}, given \in {"path", "stream"} :
         \E models \in IF op = "models" THEN SeqsUpTo(WriteInstances, MaxModels)
                       ELSE SeqsUpTo(WriteDicts, MaxModels),
            columns \in IF op = "models"
                        THEN {NoColumns, Columns({"id", "name"}), Columns({"name"})}
                        ELSE {NoColumns, Columns(<<"name", "id">>)} :
           /\ wr = [op |-> op, pc |-> "called", models |-> models,
                    columns |-> columns, given |-> given, first |-> None,
                    fieldnames |-> <<>>, j |-> 0, error |-> "None"]
           /\ file = IF given = "path"
                     THEN [handle |-> "none", content |-> OldContent]
                     ELSE [handle |-> "caller's", content |-> <<>>]
    /\ FieldsIdle
    /\ ReadIdle
    /\ ResolveIdle
    /\ EnumIdle

\* path.open(mode="w", encoding="utf-8"): the file is made or emptied.
Open(f) == [handle |-> "open", content |-> <<>>]

\* A mutation: the destination is opened only when there is a first element.
WriteOpenLate ==
    /\ wr.op = "models"
    /\ wr.pc = "called"
    /\ wr' = [wr EXCEPT !.pc = "opened"]
    /\ file' = IF wr.given = "path" /\ wr.models # <<>> THEN Open(file) ELSE file
    /\ UNCHANGED <<fieldVars, readVars, resolveVars, enumVars>>

\* write_models_to_csv: columns = set(columns); path.open(mode="w") when a
\* path was given.
WriteOpen ==
    /\ wr.op = "models"
    /\ wr.pc = "called"
    /\ wr' = [wr EXCEPT !.pc = "opened"]
    /\ file' = IF wr.given = "path" THEN Open(file) ELSE file
    /\ UNCHANGED <<fieldVars, readVars, resolveVars, enumVars>>

\* write_models_to_csv: first = next(models);
\* writer = DictWriter(file, list(first.__fields__))
WriteFirst ==
    /\ wr.op = "models"
    /\ wr.pc = "opened"
    /\ wr' = IF wr.models = <<>>
             THEN [wr EXCEPT !.pc = "raised", !.error = "StopIteration"]
             ELSE [wr EXCEPT !.pc = "header", !.first = wr.models[1],
                             !.fieldnames = wr.models[1].fields]
    /\ UNCHANGED <<file, fieldVars, readVars, resolveVars, enumVars>>

\* write_dict_to_csv: first = next(models); first = {c: first[c] for c in
\* columns} when columns are given; first = flatten_fields(first)
WriteDictFirst ==
    /\ wr.op = "dict"
    /\ wr.pc = "called"
    /\ wr' = IF wr.models = <<>>
             THEN [wr EXCEPT !.pc = "raised", !.error = "StopIteration"]
             ELSE IF /\ wr.columns.given
                     /\ \E k \in 1..Len(wr.columns.names) :
                            ~HasKey(wr.models[1], wr.columns.names[k])
             THEN [wr EXCEPT !.pc = "raised", !.error = "KeyError"]
             ELSE [wr EXCEPT !.pc = "first",
                             !.first = flatten_fields_call(
                                 IF wr.columns.given
                                 THEN Restrict(wr.models[1], wr.columns.names)
                                 ELSE wr.models[1])]
    /\ UNCHANGED <<file, fieldVars, readVars, resolveVars, enumVars>>

\* write_dict_to_csv: path.open(mode="w") when a path was given.
WriteDictOpen ==
    /\ wr.op = "dict"
    /\ wr.pc = "first"
    /\ wr' = [wr EXCEPT !.pc = "opened"]
    /\ file' = IF wr.given = "path" THEN Open(file) ELSE file
    /\ UNCHANGED <<fieldVars, readVars, resolveVars, enumVars>>

\* write_dict_to_csv: writer = DictWriter(file, fieldnames=list(first.keys()))
WriteDictWriter ==
    /\ wr.op = "dict"
    /\ wr.pc = "opened"
    /\ wr' = IF keys(wr.first).raised
             THEN [wr EXCEPT !.pc = "raised", !.error = "AttributeError"]
             ELSE [wr EXCEPT !.pc = "header", !.fieldnames = keys(wr.first).value]
    /\ UNCHANGED <<file, fieldVars, readVars, resolveVars, enumVars>>

\* A mutation: no header is written.
WriteHeaderSkipped ==
    /\ wr.pc = "header"
    /\ wr' = [wr EXCEPT !.pc = "rows", !.j = 1]
    /\ UNCHANGED <<file, fieldVars, readVars, resolveVars, enumVars>>

\* writer.writeheader()
WriteHeader ==
    /\ wr.pc = "header"
    /\ file' = [file EXCEPT !.content = Append(@, wr.fieldnames)]
    /\ wr' = [wr EXCEPT !.pc = "rows", !.j = 1]
    /\ UNCHANGED <<fieldVars, readVars, resolveVars, enumVars>>

\* A mutation: a row that cannot be written is left out and the loop goes on.
WriteRowBestEffort ==
    /\ wr.op = "models"
    /\ wr.pc = "rows"
    /\ wr.j <= Len(wr.models)
    /\ LET row == DictWriterRow(wr.fieldnames,
                                ModelDict(wr.models[wr.j], wr.columns))
       IN  /\ wr' = [wr EXCEPT !.j = @ + 1]
           /\ file' = IF row.raised THEN file
                      ELSE [file EXCEPT !.content = Append(@, row.cells)]
    /\ UNCHANGED <<fieldVars, readVars, resolveVars, enumVars>>

\* One turn of `for model in chain([first], models)`:
\* writer.writerow(model.dict(by_alias=False, include=columns)), or, in
\* write_dict_to_csv, writer.writerow(flatten_fields(model)), where writerow
\* asks the generator object for its keys.
WriteRow ==
    /\ wr.pc = "rows"
    /\ wr.j <= Len(wr.models)
    /\ IF wr.op = "dict"
       THEN /\ wr' = [wr EXCEPT !.pc = "raised", !.error =
                         IF keys(flatten_fields_call(wr.models[wr.j])).raised
                         THEN "AttributeError" ELSE "None"]
            /\ file' = file
       ELSE LET row == DictWriterRow(wr.fieldnames,
                                     ModelDict(wr.models[wr.j], wr.columns))
            IN  IF row.raised
                THEN /\ wr' = [wr EXCEPT !.pc = "raised", !.error = "ValueError"]
                     /\ file' = file
                ELSE /\ wr' = [wr EXCEPT !.j = @ + 1]
                     /\ file' = [file EXCEPT !.content = Append(@, row.cells)]
    /\ UNCHANGED <<fieldVars, readVars, resolveVars, enumVars>>

\* The loop is over: the function returns.
WriteReturn ==
    /\ wr.pc = "rows"
    /\ wr.j > Len(wr.models)
    /\ wr' = [wr EXCEPT !.pc = "done"]
    /\ UNCHANGED <<file, fieldVars, readVars, resolveVars, enumVars>>

\* Neither function closes the file it opened.  After the call the file
\* object is closed by its finalizer, when the runtime collects it: at once,
\* later, or not while the exception that ended the call is alive.
WriteCollect ==
    /\ wr.pc \in {"done", "raised"}
    /\ file.handle = "open"
    /\ file' = [file EXCEPT !.handle = "closed"]
    /\ UNCHANGED <<wr, fieldVars, readVars, resolveVars, enumVars>>

NextWrite ==
    \/ WriteOpen \/ WriteFirst
    \/ WriteDictFirst \/ WriteDictOpen \/ WriteDictWriter
    \/ WriteHeader \/ WriteRow \/ WriteReturn \/ WriteCollect

SpecWrite == InitWrite /\ [][NextWrite]_vars

\* ---------------------------------------------------------------- read, then write

\* The first lines of the sources read and written back: the fields of the
\* class in declared order, in another order, and the required field alone.
RoundTripHeaders == {RowClassFields, <<"name", "id">>, <<"id">>}

\* Their records: valid and invalid ones under each header, a short one and
\* a blank line.  No record of a source is longer than its first line.
RoundTripRows ==
    {<<"7", "n">>, <<"7", "">>, <<"n", "7">>, <<"", "7">>, <<"7">>, <<>>}

\* read_models_from_csv(model, path) has been called on a source with a
\* header; write_models_to_csv has not been called yet.
InitRoundTrip ==
    /\ source \in {<<h>> \o rows : h \in RoundTripHeaders,
                                   rows \in SeqsUpTo(RoundTripRows, MaxRows)}
    /\ \A k \in 2..Len(source) : Len(source[k]) <= Len(source[1])
    /\ reader = DictReader(NoFieldnames)
    /\ rd = [op |-> "models", pc |-> "created", error |-> NoCsvError,
             given |-> "path", field_names |-> NoFieldnames,
             handle |-> "none", last |-> <<>>]
    /\ yielded = <<>>
    /\ wr = [op |-> "models", pc |-> "uncalled", models |-> <<>>,
             columns |-> NoColumns, given |-> "path", first |-> None,
             fieldnames |-> <<>>, j |-> 0, error |-> "None"]
    /\ file = [handle |-> "none", content |-> OldContent]
    /\ FieldsIdle
    /\ ResolveIdle
    /\ EnumIdle

\* The reader has ended without an error: the records it yielded are handed
\* to write_models_to_csv(models, path), with another path.
RoundTripWrite ==
    /\ rd.pc = "done"
    /\ wr.pc = "uncalled"
    /\ wr' = [wr EXCEPT !.pc = "called",
                        !.models = [k \in 1..Len(yielded) |->
                                       WriteInst(RowClassFields, yielded[k])]]
    /\ UNCHANGED <<file, fieldVars, readVars, resolveVars, enumVars>>

NextRoundTrip ==
    \/ ReadStart \/ ReadRow \/ ReadEnd \/ ReadCollect
    \/ RoundTripWrite
    \/ WriteOpen \/ WriteFirst \/ WriteHeader \/ WriteRow \/ WriteReturn
    \/ WriteCollect

SpecRoundTrip == InitRoundTrip /\ [][NextRoundTrip]_vars

\* ---------------------------------------------------------------- enums.Enum

\* A member of an Enum subclass, and SrtDir.
Member(n, v) == [name |-> n, value |-> v]
SrtDir == <<Member("ASC", "asc"), Member("DESC", "desc")>>

\* The Enum subclasses looked into: up to MaxMembers members, no two with the
\* same name or the same value.  The text ASC can be a name and a value.
EnumNames  == {"ASC", "DESC", "UP"}
EnumValues == {"asc", "desc", "ASC"}
EnumClasses ==
    {ms \in SeqsUpTo({Member(n, v) : n \in EnumNames, v \in EnumValues},
                     MaxMembers) :
        /\ ms # <<>>
        /\ \A p, q \in 1..Len(ms) :
               p # q => ms[p].name # ms[q].name /\ ms[p].value # ms[q].value}

\* What is looked up: a string, or a value that cannot be hashed (a list).
LookupValues ==
    {[kind |-> "str", val |-> t] : t \in {"asc", "desc", "ASC", "DESC", "up"}}
    \cup {[kind |-> "list", val |-> ""]}

\* [member.value for member in cls]
MemberValues(cls) == [k \in 1..Len(cls) |-> cls[k].value]

\* The outcomes of a call: a value returned, or an exception with the
\* member values its message lists.
Returned(v) == [kind |-> "return", val |-> v, listed |-> <<>>]
Raising(type, listed) == [kind |-> "raise", val |-> type, listed |-> listed]
NoMember == "None"

\* Enum._missing_(cls, value): `value in cls.__members__` is a lookup among
\* the member names, which raises TypeError for a value that is not
\* hashable.
missing(cls, v) ==
    IF v.kind = "list" THEN Raising("TypeError", <<>>)
    ELSE IF \E k \in 1..Len(cls) : cls[k].name = v.val THEN Returned(NoMember)
    ELSE Raising("ValueError", MemberValues(cls))

\* cls(value): the member with that value; otherwise what _missing_ raises,
\* or, when _missing_ returns None, enum's own ValueError, whose message
\* ("'ASC' is not a valid SrtDir") lists nothing.
EnumCall(cls, v) ==
    IF v.kind = "str" /\ \E k \in 1..Len(cls) : cls[k].value = v.val
    THEN Returned(cls[CHOOSE k \in 1..Len(cls) : cls[k].value = v.val].name)
    ELSE LET result == missing(cls, v)
         IN  IF result.kind = "raise" THEN result
             ELSE Raising("ValueError", <<>>)

\* cls(value) has been called on an Enum subclass.
InitEnum ==
    /\ enumCls \in EnumClasses
    /\ lookup \in LookupValues
    /\ looked = [pc |-> "called", outcome |-> Returned(NoMember)]
    /\ FieldsIdle
    /\ ReadIdle
    /\ WriteIdle
    /\ ResolveIdle

\* The call runs.
EnumLookup ==
    /\ looked.pc = "called"
    /\ looked' = [pc |-> "over", outcome |-> EnumCall(enumCls, lookup)]
    /\ UNCHANGED <<enumCls, lookup, fieldVars, readVars, writeVars, resolveVars>>

NextEnum == EnumLookup

SpecEnum == InitEnum /\ [][NextEnum]_vars

\* ---------------------------------------------------------------- the program

Init ==
    \/ InitFields \/ InitEntry \/ InitRestart \/ InitFormat \/ InitResolve
    \/ InitRead \/ InitWrite \/ InitRoundTrip
    \/ InitEnum

Next ==
    \/ NextFields \/ NextEntry \/ NextRestart \/ NextFormat \/ NextResolve
    \/ NextRead \/ NextWrite \/ NextRoundTrip
    \/ NextEnum

Spec == Init /\ [][Next]_vars

\* ---------------------------------------------------------------- C6

\* The line of the source on which record k ends, the first line being 1.
RECURSIVE EndLine(_)
EndLine(k) == IF k = 0 THEN 0 ELSE EndLine(k - 1) + LinesOf(source[k])

\* The records that are data rows: not blank, and after the header when the
\* first line is one.
FirstData == IF rd.field_names = NoFieldnames THEN 2 ELSE 1
DataRows(upto) == {k \in FirstData..upto : source[k] # <<>>}

\* A data row validates when its id cell is an integer.
Validates(k) == source[k][1] = "7"
Failing(upto) == {k \in DataRows(upto) : ~Validates(k)}

\* What a cell of record k is read as: absent when empty or missing.
CellValue(k, q) ==
    IF q <= Len(source[k]) /\ source[k][q] # "" THEN Str(source[k][q]) ELSE None

\* The instance a valid data row is read as.
ExpectedRecord(k) == [id |-> [kind |-> "int", val |-> 7], name |-> CellValue(k, 2)]

\* f over the members of S, a set of numbers, in increasing order.
InOrder(S, f(_)) ==
    [i \in 1..Cardinality(S) |->
        f(CHOOSE x \in S : Cardinality({y \in S : y < x}) = i - 1)]

Max(S) == CHOOSE x \in S : \A y \in S : y <= x

\* C7 as claimed: the error raised is the one of the first failing row.
C7_FirstErrorReported ==
    (rd.pc = "raised") =>
        rd.error.row = EndLine(Min(Failing(Len(source))))

\* C7 as amended: one CSVValidationError is raised, and it is the one of the
\* last row that failed validation.
C7_LastErrorReported ==
    (rd.op = "models") =>
        /\ rd.pc = "raised" =>
               /\ rd.error.type = "CSVValidationError"
               /\ rd.error.row = EndLine(Max(Failing(Len(source))))
        /\ (rd.pc = "done" /\ reader.pos = Len(source)) => Failing(Len(source)) = {}

\* Two rows failed and the error has been raised.
C7_Witness ==
    /\ rd.pc = "raised"
    /\ Cardinality(Failing(Len(source))) >= 2

\* ---------------------------------------------------------------- C8

\* C8 as claimed: the row number of the error is the position of a failing
\* data row among the data rows, the header not counted.
C8_RowNumberExcludesHeader ==
    (rd.pc = "raised") =>
        \E k \in Failing(Len(source)) :
            /\ rd.error.row = Cardinality(DataRows(k))
            /\ rd.error.msg_row = Cardinality(DataRows(k))

\* C8 as amended: the row number of the error, in its row attribute and in
\* its message, is the reader's line number: the number of lines of the source
\* up to the end of the failing row, the header line counted.
C8_RowNumberIsLineNumber ==
    (rd.op = "models" /\ rd.error # NoCsvError) =>
        /\ Failing(reader.pos) # {}
        /\ rd.error.row = EndLine(Max(Failing(reader.pos)))
        /\ rd.error.msg_row = rd.error.row

\* The second data row of a source of one-line rows failed, and is reported
\* as row 3.
C8_Witness ==
    /\ rd.pc = "raised"
    /\ Failing(Len(source)) = {3}
    /\ EndLine(3) = 3
    /\ rd.error.row = 3

\* ---------------------------------------------------------------- C9

\* The row record k is read as, under the reader's field names.
ExpectedRow(k) ==
    [key \in {reader.fieldnames[q] : q \in 1..Len(reader.fieldnames)} |->
        CellValue(k, CHOOSE q \in 1..Len(reader.fieldnames) :
                         reader.fieldnames[q] = key)]

C10_HeaderIsColumnSubset ==
    (/\ wr.op = "models"
     /\ wr.columns.given
     /\ wr.pc \in {"rows", "done"}
     /\ \A c \in wr.columns.names : InSeq(c, wr.fieldnames)) =>
        /\ {file.content[1][q] : q \in 1..Len(file.content[1])} = wr.columns.names
        /\ \A k \in 1..Len(file.content) :
               Len(file.content[k]) = Cardinality(wr.columns.names)

\* ---------------------------------------------------------------- C11

\* The destination as it was before the call.
FileBeforeCall ==
    IF wr.given = "path" THEN OldContent ELSE <<>>

\* C11: a write call whose sequence yields no element fails with an error,
\* writes no header and no row, and leaves no empty file behind: what the
\* destination holds is what it held before the call.
C11_EmptyInputLeavesNoFile ==
    (wr.models = <<>>) =>
        /\ wr.pc # "done"
        /\ (wr.pc = "raised" => wr.error = "StopIteration")
        /\ file.content = FileBeforeCall

\* ---------------------------------------------------------------- C12

\* The cells writerow writes for element k of the input.
WrittenRow(k) ==
    DictWriterRow(wr.fieldnames, ModelDict(wr.models[k], wr.columns)).cells

\* C12: in a write call that returns, over n >= 1 elements, the destination
\* holds the header, once and first, and then n data rows in input order;
\* while the rows are written the header is already there, followed by the
\* rows of the elements written so far.
C12_HeaderOnceThenRows ==
    /\ (wr.pc = "done") =>
           /\ Len(wr.models) >= 1
           /\ file.content = <<wr.fieldnames>>
                  \o [k \in 1..Len(wr.models) |-> WrittenRow(k)]
    /\ (wr.pc = "rows") =>
           file.content = <<wr.fieldnames>>
               \o [k \in 1..(wr.j - 1) |-> WrittenRow(k)]

\* Two different records have been written and the call has returned.
C12_Witness ==
    /\ wr.pc = "done"
    /\ Len(wr.models) = 2
    /\ wr.models[1] # wr.models[2]
    /\ Len(file.content) = 3
    /\ file.content[1] = <<"id", "name", "size">>
    /\ file.content[2] # file.content[3]

\* ---------------------------------------------------------------- C13

\* The dotted-path column names of a mapping: a nested mapping gives one
\* name per leaf below it.
RECURSIVE FlatKeys(_)
FlatKeys(d) ==
    LET RECURSIVE walk(_)
        walk(k) ==
            IF k > Len(d.val) THEN <<>>
            ELSE LET key == d.val[k][1]
                     v   == d.val[k][2]
                 IN  (IF v.kind = "dict"
                      THEN LET sub == FlatKeys(v)
                           IN  [c \in 1..Len(sub) |-> key \o "." \o sub[c]]
                      ELSE <<key>>) \o walk(k + 1)
    IN  walk(1)

\* Every mapping of the input has every column asked for.
ColumnsPresent ==
    wr.columns.given =>
        \A j \in 1..Len(wr.models), k \in 1..Len(wr.columns.names) :
            HasKey(wr.models[j], wr.columns.names[k])

\* C13: write_dict_to_csv over a non-empty sequence of mappings raises
\* nothing, and when it has returned the destination holds the dotted-path
\* names of the first mapping (restricted to the columns) as the header and
\* one row per mapping.
C13_DictWriteCompletes ==
    (wr.op = "dict" /\ wr.models # <<>> /\ ColumnsPresent) =>
        /\ wr.error = "None"
        /\ (wr.pc = "done") =>
               /\ file.content[1] =
                      FlatKeys(IF wr.columns.given
                               THEN Restrict(wr.models[1], wr.columns.names)
                               ELSE wr.models[1])
               /\ Len(file.content) = 1 + Len(wr.models)

\* ---------------------------------------------------------------- C14

\* C14: when a write call that was given a path is over, by returning or by
\* raising, the file it opened is closed.
C14_HandleClosedWhenCallEnds ==
    (wr.given = "path" /\ wr.pc \in {"done", "raised"}) =>
        file.handle # "open"

\* ---------------------------------------------------------------- C15

\* The data rows of the source, in order: the records after the first line
\* that are no blank line.
DataRowsOfSource == SelectSeq(SubSeq(source, 2, Len(source)), LAMBDA r : r # <<>>)

\* A cell of a record is empty: the empty string, or not there.
EmptyAt(cells, q) == q > Len(cells) \/ cells[q] = ""

\* The position of a name in a first line, 0 when it is not there.
ColumnOf(name, header) ==
    IF InSeq(name, header)
    THEN CHOOSE q \in 1..Len(header) : header[q] = name
    ELSE 0

C16_NoneIsEmptyCell ==
    (wr.op = "models" /\ wr.pc \in {"rows", "done"}) =>
        \A k \in 1..(Len(file.content) - 1), q \in 1..Len(wr.fieldnames) :
            LET f    == wr.fieldnames[q]
                vals == wr.models[k].vals
            IN  /\ (f \in DOMAIN vals /\ vals[f] = None)
                       => file.content[k + 1][q] = ""
                /\ file.content[k + 1][q] # "None"

\* A record with an absent name and a size has been written, all columns
\* asked for.
C16_Witness ==
    /\ wr.op = "models"
    /\ wr.pc = "done"
    /\ ~wr.columns.given
    /\ wr.models[1].vals["name"] = None
    /\ file.content[2] = <<"1", "", "9">>

\* ---------------------------------------------------------------- C17

\* A component of the path names a field that the schema does not have at
\* that place: no field of the class, or anything below a field that holds
\* no schema.
RECURSIVE NamesUnknownField(_, _)
NamesUnknownField(cls, components) ==
    IF components = <<>> THEN FALSE
    ELSE IF ~IsModelType(cls) \/ Head(components) \notin NameSetOf(cls) THEN TRUE
    ELSE NamesUnknownField(FieldOf(cls, Head(components)).type_, Tail(components))

\* C17: get_field_value_and_info called with a path that names a field the
\* schema does not have raises; it does not return.
C17_UnknownFieldRaises ==
    (resolved.pc # "called" /\ NamesUnknownField(model, fieldPath)) =>
        resolved.raised

\* ---------------------------------------------------------------- C18

\* The value looked up is the value of a member.
IsMemberValue ==
    lookup.kind = "str" /\ \E k \in 1..Len(enumCls) : enumCls[k].value = lookup.val

\* C18: a lookup with anything that is not the value of a member raises a
\* ValueError whose message lists all the member values, also when the input
\* is the name of a member.
C18_NonValueListsValues ==
    (looked.pc = "over" /\ ~IsMemberValue) =>
        /\ looked.outcome.kind = "raise"
        /\ looked.outcome.val = "ValueError"
        /\ looked.outcome.listed = MemberValues(enumCls)

\* ---------------------------------------------------------------- C19

\* The schema's fields in declared order: flattened, or the top level.
DeclaredOrder == IF flat THEN flatten_fields(model) ELSE FieldNames(model)

\* The fields one include entry selects, in schema order.
EntryFields(e) ==
    SelectSeq(DeclaredOrder,
              LAMBDA f : IF HasStar(e) THEN startswith(f, RemoveStars(e)) ELSE f = e)

\* The fields of the first n entries of include: entry by entry.
RECURSIVE EntriesFields(_)
EntriesFields(n) ==
    IF n = 0 THEN <<>> ELSE EntriesFields(n - 1) \o EntryFields(include[n])

\* C19: with include given, get_fields yields entry by entry, in the order of
\* include: everything the entries before the one at hand select, each
\* entry's fields in schema order, then fields of the entry at hand; when it
\* returns, the fields of all the entries.
C19_IncludeOrder ==
    (instance = None /\ include # <<>>) =>
        /\ IsPrefix(out, EntriesFields(Len(include)))
        /\ gen.pc = "suspended" =>
               /\ gen.i <= Len(include)
               /\ IsPrefix(EntriesFields(gen.i - 1), out)
               /\ IsPrefix(out, EntriesFields(gen.i))
        /\ gen.pc = "raised" => out = EntriesFields(gen.i - 1)
        /\ gen.pc = "done" => out = EntriesFields(Len(include))

\* include names the schema's second field before its first: the call has
\* yielded them in the order of include, the reverse of the declared order.
C19_Witness ==
    /\ instance = None
    /\ gen.pc = "done"
    /\ Len(include) = 2
    /\ Len(DeclaredOrder) = 2
    /\ out = <<DeclaredOrder[2], DeclaredOrder[1]>>
    /\ DeclaredOrder[1] # DeclaredOrder[2]

\* ---------------------------------------------------------------- C20

\* C20: with no include, get_fields yields every field in declared order:
\* with flat what flatten_fields yields, without flat the names of the
\* schema's own fields, none dotted, nested schemas not entered.
C20_NoIncludeYieldsAll ==
    (instance = None /\ include = <<>>) =>
        LET all == IF flat THEN flatten_fields(model) ELSE FieldNames(model)
        IN  /\ IsPrefix(out, all)
            /\ gen.pc = "done" => out = all
            /\ gen.pc # "raised"
            /\ ~flat => \A k \in 1..Len(out) :
                            /\ out[k] = model.members[k].name
                            /\ ~InSeq(DOT, out[k])

\* A schema with a nested schema has been listed without flat: the nested
\* field is one name, where flatten_fields has a dotted path.
C20_Witness ==
    /\ instance = None
    /\ gen.pc = "done"
    /\ include = <<>>
    /\ ~flat
    /\ out = FieldNames(model)
    /\ \E k \in 1..Len(flatten_fields(model)) : InSeq(DOT, flatten_fields(model)[k])

\* ---------------------------------------------------------------- C21

\* writerow fails for element k of the input.
RowFails(k) ==
    DictWriterRow(wr.fieldnames, ModelDict(wr.models[k], wr.columns)).raised

\* C21: the write stops at the first row that cannot be written: the call
\* has raised at row k exactly when row k is the first that fails, the
\* destination then holds the header and the k - 1 rows before it and none
\* after it, and a call that returns has had no failing row.
C21_WriteStopsAtFailingRow ==
    (wr.op = "models") =>
        /\ (wr.pc = "raised" /\ wr.error = "ValueError") =>
               /\ RowFails(wr.j)
               /\ \A k \in 1..(wr.j - 1) : ~RowFails(k)
               /\ file.content = <<wr.fieldnames>>
                      \o [k \in 1..(wr.j - 1) |-> WrittenRow(k)]
        /\ (wr.pc = "done") => \A k \in 1..Len(wr.models) : ~RowFails(k)
        /\ (wr.pc = "rows") => \A k \in 1..(wr.j - 1) : ~RowFails(k)

\* The second of three records has a field the header lacks, and the third
\* could have been written: the call raised with the first row only.
C21_Witness ==
    /\ wr.op = "models"
    /\ wr.pc = "raised"
    /\ wr.error = "ValueError"
    /\ Len(wr.models) = 3
    /\ wr.j = 2
    /\ ~RowFails(3)
    /\ Len(file.content) = 2

\* ---------------------------------------------------------------- C22

CanonicalFields(inst) ==
    IF "extra" \in DOMAIN inst.vals THEN <<"id", "extra">>
    ELSE <<"id", "name", "size">>

\* C23: without a column subset the header of write_models_to_csv is every
\* field of the first record, in declared order and under its canonical
\* name, and each cell of a written row is the value of the field its
\* column names, so no record of the first one's class is refused.
C23_HeaderIsCanonicalFields ==
    (wr.op = "models" /\ ~wr.columns.given) =>
        /\ (wr.pc \in {"rows", "done"} \/ wr.error = "ValueError") =>
               /\ Len(file.content) >= 1
               /\ file.content[1] = CanonicalFields(wr.models[1])
               /\ \A k \in 2..Len(file.content) : \A q \in 1..Len(file.content[1]) :
                      /\ file.content[1][q] \in DOMAIN wr.models[k - 1].vals
                      /\ file.content[k][q] =
                             CellText(wr.models[k - 1].vals[file.content[1][q]])
        /\ (wr.error = "ValueError") =>
               CanonicalFields(wr.models[wr.j]) # CanonicalFields(wr.models[1])
        /\ (wr.pc = "done") => Len(file.content) = Len(wr.models) + 1

\* Three records of the class with an aliased field have been written without
\* a column subset.
C23_Witness ==
    /\ wr.op = "models"
    /\ ~wr.columns.given
    /\ wr.pc = "done"
    /\ Len(wr.models) = 3
    /\ file.content[1] = <<"id", "name", "size">>
    /\ file.content[3] = <<"1", "", "9">>

\* ---------------------------------------------------------------- C24

\* The ModelField a path addresses in a schema, found in the classes alone,
\* or NoField when the path leaves the schema.
RECURSIVE SchemaFieldAt(_, _)
SchemaFieldAt(cls, path) ==
    IF ~IsModelType(cls) \/ Head(path) \notin NameSetOf(cls) THEN NoField
    ELSE IF Len(path) = 1 THEN FieldOf(cls, Head(path))
    ELSE SchemaFieldAt(FieldOf(cls, Head(path)).type_, Tail(path))

\* A component of the path before the last one is a field that holds None.
RECURSIVE GoesThroughAbsent(_, _)
GoesThroughAbsent(obj, path) ==
    /\ Len(path) >= 2
    /\ obj.kind = "model"
    /\ Head(path) \in DOMAIN obj.val.attrs
    /\ \/ obj.val.attrs[Head(path)] = None
       \/ GoesThroughAbsent(obj.val.attrs[Head(path)], Tail(path))

\* C24: when a component of the path before the last is an absent nested
\* record and the path addresses a field of the schema, the resolver returns
\* None as the value and the schema's ModelField of the addressed field, the
\* same ModelField it returns for every record in which the path meets no
\* absent record.
C24_AbsentParentKeepsMetadata ==
    (/\ resolved.pc # "called"
     /\ GoesThroughAbsent(instance, fieldPath)
     /\ SchemaFieldAt(model, fieldPath) # NoField) =>
        /\ resolved.pc = "returned"
        /\ resolved.value = None
        /\ resolved.field # NoField
        /\ resolved.field = SchemaFieldAt(model, fieldPath)
        /\ \A present \in Instances(model) :
               LET got == get_field_value_and_info(present, fieldPath)
               IN  (~GoesThroughAbsent(present, fieldPath) /\ ~got.raised) =>
                       got.field = resolved.field

\* A path of two components was resolved through an absent singular nested
\* record, and some record of the same class holds that nested record.
C24_Witness ==
    /\ resolved.pc = "returned"
    /\ Len(fieldPath) = 2
    /\ GoesThroughAbsent(instance, fieldPath)
    /\ resolved.value = None
    /\ resolved.field # NoField
    /\ resolved.field.name = fieldPath[2]
    /\ FieldOf(model, fieldPath[1]).shape = SHAPE_SINGLETON
    /\ \E present \in Instances(model) :
           /\ ~GoesThroughAbsent(present, fieldPath)
           /\ ~get_field_value_and_info(present, fieldPath).raised
           /\ get_field_value_and_info(present, fieldPath).value # None

\* ---------------------------------------------------------------- C25

\* C25: a field emitted with no render name requested, or declaring no
\* transformation under the requested name, carries the encoder of its
\* value's type applied to the raw value when the root's Config declares
\* one, and the raw value otherwise; a hint is only ever applied under the
\* name that was requested.
C25_NoHintFallsBackToEncoder ==
    \A k \in 1..Len(emitted) :
        LET got == Resolved(emitted[k][1])
        IN  /\ (render = NoRender \/ render \notin got.field.extra) =>
                   emitted[k][2] = IF TypeOf(got.value) \in config
                                   THEN Encoded(got.value)
                                   ELSE got.value
            /\ (emitted[k][2].kind = "hint") =>
                   /\ render # NoRender
                   /\ emitted[k][2].val[1] = render

\* With no render name requested, a datetime field that declares a "table"
\* hint was emitted through the datetime encoder, and a field holding None
\* was emitted as None.
C25_Witness ==
    /\ render = NoRender
    /\ DatetimeType \in config
    /\ \E k \in 1..Len(emitted) :
           /\ "table" \in Resolved(emitted[k][1]).field.extra
           /\ Resolved(emitted[k][1]).value = Datetime
           /\ emitted[k][2] = Encoded(Datetime)
    /\ \E k \in 1..Len(emitted) : emitted[k][2] = None

\* ---------------------------------------------------------------- C26

\* The number of fields of a schema tree, nested ones included.
RECURSIVE NodeCount(_)
NodeCount(cls) ==
    LET RECURSIVE count(_)
        count(k) ==
            IF k > Len(cls.members) THEN 0
            ELSE 1 + (IF IsModelType(cls.members[k].type_)
                      THEN NodeCount(cls.members[k].type_) ELSE 0)
                   + count(k + 1)
    IN  count(1)

\* What the generator at hand and the ones left before it have yielded.
Enumerations ==
    Append(flattening.earlier,
           [complete |-> flattening.pc = "done", yielded |-> flattening.yielded])

\* C26: every enumeration of a schema by flatten_fields yields no more paths
\* than the tree has fields and comes to its end; every invocation yields
\* the same sequence from its first path on, whatever the generators before
\* it had yielded when they were left.
C26_TerminatesAndRestarts ==
    /\ [](\A a \in 1..Len(Enumerations) :
             /\ Len(Enumerations[a].yielded) <= NodeCount(model)
             /\ Enumerations[a].complete =>
                    Enumerations[a].yielded = flatten_fields(model)
             /\ \A b \in 1..Len(Enumerations) :
                    /\ IsPrefix(Enumerations[a].yielded, Enumerations[b].yielded)
                       \/ IsPrefix(Enumerations[b].yielded, Enumerations[a].yielded)
                    /\ (Enumerations[a].complete /\ Enumerations[b].complete) =>
                           Enumerations[a].yielded = Enumerations[b].yielded)
    /\ (flattening.pc = "suspended") ~> (flattening.pc = "done")

\* A generator was left after its first path, one before it was exhausted, and
\* the third invocation has yielded every path of a tree with a nested class.
C26_Witness ==
    /\ flattening.calls = 3
    /\ flattening.pc = "done"
    /\ Len(flattening.yielded) >= 2
    /\ flattening.earlier[1].complete
    /\ ~flattening.earlier[2].complete
    /\ Len(flattening.earlier[2].yielded) = 1
    /\ \E k \in 1..Len(flattening.yielded) : Len(split(flattening.yielded[k])) = 2

\* ---------------------------------------------------------------- C27

\* C27: the include list is not checked before output is produced: when
\* iter_model_formatted fails on the first entry that matches nothing, the
\* pairs of every field the entries before it select have been emitted, in
\* order, and nothing else.
C27_PairsBeforeIncludeError ==
    (instance # None /\ gen.pc = "raised" /\ err.type = "ValueError") =>
        /\ gen.i \in 1..Len(include)
        /\ err.entry = include[gen.i]
        /\ EntryFields(include[gen.i]) = <<>>
        /\ \A q \in 1..(gen.i - 1) : EntryFields(include[q]) # <<>>
        /\ Len(emitted) = Len(EntriesFields(gen.i - 1))
        /\ \A q \in 1..Len(emitted) : emitted[q][1] = EntriesFields(gen.i - 1)[q]

\* The second entry of include matched nothing and the pairs of the first
\* entry, more than one, were emitted before the error.
C27_Witness ==
    /\ instance # None
    /\ gen.pc = "raised"
    /\ err.type = "ValueError"
    /\ gen.i = 2
    /\ Len(emitted) >= 2

\* ---------------------------------------------------------------- C28

\* C28: read_models_from_csv raises its validation error only in the step in
\* which the reader reports that no row is left; a step taken while a row is
\* left, whatever errors have been recorded, leaves the generator in its loop,
\* so a consumer that stops pulling before the end sees no error.
C28_ErrorOnlyPastLastRow ==
    [][/\ (rd.pc # "raised" /\ rd'.pc = "raised") =>
              /\ rd.op = "models"
              /\ rd.pc = "loop"
              /\ DictReaderNext(source, reader).stop
              /\ rd.error # NoCsvError
              /\ yielded' = yielded
       /\ (rd.pc = "loop" /\ ~DictReaderNext(source, reader).stop) =>
              rd'.pc = "loop"]_vars

\* Every row has been handled, the first failed and the last was yielded: the
\* error is recorded and not raised, the generator waits for the next pull.
C28_Witness ==
    /\ rd.op = "models"
    /\ rd.pc = "loop"
    /\ Len(source) = 3
    /\ reader.pos = Len(source)
    /\ Failing(Len(source)) = {2}
    /\ rd.error # NoCsvError
    /\ Len(yielded) = 1

\* ---------------------------------------------------------------- C29

\* C29: given a path, write_models_to_csv has opened the destination, and so
\* emptied it, before it pulls its first element, and write_dict_to_csv has
\* pulled its first element before it opens the destination: on an empty
\* input the first leaves the destination empty and the second as it was.
C29_OpenAndPullOrder ==
    (wr.given = "path") =>
        /\ (wr.op = "models") =>
               /\ (wr.pc # "called") => file.handle # "none"
               /\ (wr.pc \in {"called", "opened"}) => wr.first = None
               /\ (wr.models = <<>> /\ wr.pc = "raised") =>
                      /\ wr.error = "StopIteration"
                      /\ file.content = <<>>
        /\ (wr.op = "dict") =>
               /\ (file.handle # "none") => wr.first # None
               /\ (wr.models = <<>> /\ wr.pc = "raised") =>
                      /\ wr.error = "StopIteration"
                      /\ file.handle = "none"
                      /\ file.content = OldContent

\* write_models_to_csv was given a path that held rows and an empty input: it
\* raised, and the destination is open and empty.
C29_Witness ==
    /\ wr.op = "models"
    /\ wr.given = "path"
    /\ wr.models = <<>>
    /\ wr.pc = "raised"
    /\ file.handle = "open"
    /\ file.content = <<>>
    /\ OldContent # <<>>

\* ---------------------------------------------------------------- C30

\* An entry without its "*" characters.
Unstarred(e) == SelectSeq(e, LAMBDA c : c # STAR)

\* What one include entry selects: with a "*" anywhere, the fields that start
\* with the rest of the entry, in schema order; without, the entry when it is
\* one of the fields.
SelectedBy(e) ==
    IF \E k \in 1..Len(e) : e[k] = STAR
    THEN SelectSeq(DeclaredOrder, LAMBDA f : IsPrefix(Unstarred(e), f))
    ELSE IF \E k \in 1..Len(DeclaredOrder) : DeclaredOrder[k] = e THEN <<e>>
    ELSE <<>>

\* C30: an entry with "*" at any position selects the fields that start with
\* the entry's text without its "*"s, so "*" alone selects all of them in
\* schema order; an entry without "*" is yielded when it is one of the
\* fields get_fields yields without include under the same flat, and raises
\* the ValueError otherwise.
C30_EntryForms ==
    (instance = None /\ Len(include) = 1) =>
        /\ IsPrefix(out, SelectedBy(include[1]))
        /\ (gen.pc = "done") =>
               /\ out = SelectedBy(include[1])
               /\ out # <<>>
               /\ Unstarred(include[1]) = <<>> => out = DeclaredOrder
        /\ (gen.pc = "raised") =>
               /\ SelectedBy(include[1]) = <<>>
               /\ err = ValueError(include[1], DeclaredOrder)

\* The entry "*ab" has selected the field "ab" of a schema that also has a
\* field "a".
C30_Witness ==
    /\ instance = None
    /\ include = << <<STAR, "a", "b">> >>
    /\ gen.pc = "done"
    /\ out = << <<"a", "b">> >>
    /\ Len(DeclaredOrder) >= 2

====
